---- MODULE Spec2Model ----
(***************************************************************************)
(* A model of django-cloudlaunch/baselaunch: the non-model view contract   *)
(* of views.py (get_object / list_objects of every resource handler,       *)
(* against the state of the cloud provider) and the hybrid router of       *)
(* util.py (get_routes / get_urls over a registry of viewsets and plain    *)
(* views).                                                                 *)
(***************************************************************************)
EXTENDS Integers, Sequences, FiniteSets, TLC

VARIABLES provider, last, registry, urls, pc

vars == <<provider, last, registry, urls, pc>>

\* Bounds of the model.
MaxId == 2
MaxRegistry == 3

Ids == 1..MaxId

(***************************************************************************)
(* Objects.  Every value a handler can return has the same three fields;   *)
(* parent is 0 for a top-level object.                                     *)
(***************************************************************************)
Obj(k, i, p) == [kind |-> k, id |-> i, parent |-> p]

\* Python's None.
None == Obj("None", 0, 0)

\* The empty data row {} of CustomReadOnlySingleViewSet.get_object.
EmptyRow == Obj("EmptyRow", 0, 0)

(***************************************************************************)
(* The provider.  provider.top[s] is the set of identifiers held by the    *)
(* top-level service s; provider.child[s][c] is the parent of child c of   *)
(* the nested collection s, or 0 when c does not exist.                    *)
(***************************************************************************)
TopServices == {"compute.regions", "compute.images", "compute.instance_types",
                "compute.instances", "security.key_pairs",
                "security.security_groups", "network",
                "block_store.volumes", "block_store.snapshots",
                "object_store"}

NestedServices == {"region.zones", "sg.rules", "network.subnets", "bucket.objects"}

ParentService(s) ==
    CASE s = "region.zones" -> "compute.regions"
      [] s = "sg.rules" -> "security.security_groups"
      [] s = "network.subnets" -> "network"
      [] s = "bucket.objects" -> "object_store"

KindOf(s) ==
    CASE s = "compute.regions" -> "Region"
      [] s = "compute.images" -> "MachineImage"
      [] s = "compute.instance_types" -> "InstanceType"
      [] s = "compute.instances" -> "Instance"
      [] s = "security.key_pairs" -> "KeyPair"
      [] s = "security.security_groups" -> "SecurityGroup"
      [] s = "network" -> "Network"
      [] s = "block_store.volumes" -> "Volume"
      [] s = "block_store.snapshots" -> "Snapshot"
      [] s = "object_store" -> "Bucket"
      [] s = "region.zones" -> "Zone"
      [] s = "sg.rules" -> "SecurityGroupRule"
      [] s = "network.subnets" -> "Subnet"
      [] s = "bucket.objects" -> "BucketObject"

\* The increasing sequence of the elements of a finite set of integers.
RECURSIVE SortedSeq(_)
SortedSeq(S) ==
    IF S = {} THEN <<>>
    ELSE LET m == CHOOSE x \in S : \A y \in S : x <= y
         IN <<m>> \o SortedSeq(S \ {m})

\* service.list()
ProviderList(p, s) ==
    LET ids == SortedSeq(p.top[s])
    IN [n \in 1..Len(ids) |-> Obj(KindOf(s), ids[n], 0)]

\* service.get(pk): the object, or None when the provider has none.
ProviderGet(p, s, pk) ==
    IF pk \in p.top[s] THEN Obj(KindOf(s), pk, 0) ELSE None

\* service.find(name=name): the list of matches.
ProviderFind(p, s, name) ==
    IF name \in p.top[s] THEN <<Obj(KindOf(s), name, 0)>> ELSE <<>>

\* The children of one parent object: region.zones, sg.rules, bucket.list(),
\* network.subnets.list(network=pk).
ProviderChildren(p, s, parent_pk) ==
    LET ids == SortedSeq({c \in Ids : p.child[s][c] = parent_pk})
    IN [n \in 1..Len(ids) |-> Obj(KindOf(s), ids[n], parent_pk)]

\* A lookup of a child by its own identifier alone, with no parent given:
\* security_groups.rules.get(pk), network.subnets.get(pk).
ProviderChildGet(p, s, pk) ==
    IF pk \in Ids /\ p.child[s][pk] # 0
    THEN Obj(KindOf(s), pk, p.child[s][pk]) ELSE None

\* Python truthiness of an object or None.
Truthy(o) == o # None

(***************************************************************************)
(* Outcomes of a handler operation.  status is "returned" (get_object gave *)
(* value back), "listed" (list_objects gave items back), "Response" (an    *)
(* HTTP response built from value by serializer), "Http404" or             *)
(* "PermissionDenied".  checked records that check_object_permissions ran  *)
(* on value; calls is the sequence of provider calls made.                 *)
(***************************************************************************)
Returned(v, c) ==
    [status |-> "returned", value |-> v, items |-> <<>>, checked |-> FALSE,
     serializer |-> "", calls |-> c]

Listed(l, c) ==
    [status |-> "listed", value |-> None, items |-> l, checked |-> FALSE,
     serializer |-> "", calls |-> c]

Raise(e, c) ==
    [status |-> e, value |-> None, items |-> <<>>, checked |-> FALSE,
     serializer |-> "", calls |-> c]

\* next((s for s in lst if s.id == pk), None)
FirstWithId(lst, pk) ==
    LET hits == {n \in 1..Len(lst) : lst[n].id = pk}
    IN IF hits = {} THEN None
       ELSE lst[CHOOSE n \in hits : \A m \in hits : n <= m]

(***************************************************************************)
(* CustomNonModelObjectMixin                                               *)
(***************************************************************************)
\* The abstract retrieve_object: its body is pass, so it returns None.
CustomNonModelObjectMixin_retrieve_object == Returned(None, <<>>)

\* get_object, given the outcome r of self.retrieve_object() and whether
\* check_object_permissions lets the request through.
CustomNonModelObjectMixin_get_object(r, permitted) ==
    IF r.status # "returned" THEN r
    ELSE IF r.value = None THEN Raise("Http404", r.calls)
    ELSE IF ~permitted
         THEN [Raise("PermissionDenied", r.calls) EXCEPT !.checked = TRUE]
         ELSE [r EXCEPT !.checked = TRUE]

(***************************************************************************)
(* CustomReadOnlySingleViewSet                                             *)
(***************************************************************************)
CustomReadOnlySingleViewSet_get_object_inherited ==
    CustomNonModelObjectMixin_get_object(
        CustomNonModelObjectMixin_retrieve_object, TRUE)

CustomReadOnlySingleViewSet_get_object == Returned(EmptyRow, <<>>)

SingleViews == {"ComputeViewSet", "SecurityViewSet", "BlockStoreViewSet",
                "ObjectStoreViewSet"}

serializer_class(view) ==
    CASE view = "ComputeViewSet" -> "ComputeSerializer"
      [] view = "SecurityViewSet" -> "SecuritySerializer"
      [] view = "BlockStoreViewSet" -> "BlockStoreSerializer"
      [] view = "ObjectStoreViewSet" -> "ObjectStoreSerializer"

\* list(): instance = self.get_object(); Response(get_serializer(instance).data)
CustomReadOnlySingleViewSet_list(view) ==
    LET instance == CustomReadOnlySingleViewSet_get_object
    IN IF instance.status # "returned" THEN instance
       ELSE [instance EXCEPT !.status = "Response",
                             !.serializer = serializer_class(view)]

(***************************************************************************)
(* The resource handlers.  kw is self.kwargs: kw.pk and, for a nested      *)
(* resource, kw.parent_pk (region_pk, security_group_pk, network_pk,       *)
(* bucket_pk).                                                             *)
(***************************************************************************)
RegionViewSet_list_objects(p, kw) ==
    Listed(ProviderList(p, "compute.regions"), <<"compute.regions.list">>)

RegionViewSet_get_object(p, kw) ==
    Returned(ProviderGet(p, "compute.regions", kw.pk), <<"compute.regions.get">>)

MachineImageViewSet_list_objects(p, kw) ==
    Listed(ProviderList(p, "compute.images"), <<"compute.images.list">>)

MachineImageViewSet_get_object(p, kw) ==
    Returned(ProviderGet(p, "compute.images", kw.pk), <<"compute.images.get">>)

ZoneViewSet_list_objects(p, kw) ==
    LET region == ProviderGet(p, "compute.regions", kw.parent_pk)
    IN IF Truthy(region)
       THEN Listed(ProviderChildren(p, "region.zones", region.id),
                   <<"compute.regions.get">>)
       ELSE Raise("Http404", <<"compute.regions.get">>)

ZoneViewSet_get_object(p, kw) ==
    LET l == ZoneViewSet_list_objects(p, kw)
    IN IF l.status # "listed" THEN l
       ELSE Returned(FirstWithId(l.items, kw.pk), l.calls)

KeyPairViewSet_list_objects(p, kw) ==
    Listed(ProviderList(p, "security.key_pairs"), <<"security.key_pairs.list">>)

KeyPairViewSet_get_object(p, kw) ==
    Returned(ProviderGet(p, "security.key_pairs", kw.pk),
             <<"security.key_pairs.get">>)

SecurityGroupViewSet_list_objects(p, kw) ==
    Listed(ProviderList(p, "security.security_groups"),
           <<"security.security_groups.list">>)

SecurityGroupViewSet_get_object(p, kw) ==
    Returned(ProviderGet(p, "security.security_groups", kw.pk),
             <<"security.security_groups.get">>)

SecurityGroupRuleViewSet_list_objects(p, kw) ==
    LET sg == ProviderGet(p, "security.security_groups", kw.parent_pk)
    IN IF Truthy(sg)
       THEN Listed(ProviderChildren(p, "sg.rules", sg.id),
                   <<"security.security_groups.get">>)
       ELSE Raise("Http404", <<"security.security_groups.get">>)

SecurityGroupRuleViewSet_get_object(p, kw) ==
    LET sg == ProviderGet(p, "security.security_groups", kw.parent_pk)
    IN IF ~Truthy(sg)
       THEN Raise("Http404", <<"security.security_groups.get">>)
       ELSE Returned(ProviderChildGet(p, "sg.rules", kw.pk),
                     <<"security.security_groups.get",
                       "security.security_groups.rules.get">>)

NetworkViewSet_list_objects(p, kw) ==
    Listed(ProviderList(p, "network"), <<"network.list">>)

NetworkViewSet_get_object(p, kw) ==
    Returned(ProviderGet(p, "network", kw.pk), <<"network.get">>)

SubnetViewSet_list_objects(p, kw) ==
    Listed(ProviderChildren(p, "network.subnets", kw.parent_pk),
           <<"network.subnets.list">>)

SubnetViewSet_get_object(p, kw) ==
    Returned(ProviderChildGet(p, "network.subnets", kw.pk),
             <<"network.subnets.get">>)

InstanceTypeViewSet_list_objects(p, kw) ==
    Listed(ProviderList(p, "compute.instance_types"),
           <<"compute.instance_types.list">>)

InstanceTypeViewSet_get_object(p, kw) ==
    LET obj == ProviderFind(p, "compute.instance_types", kw.pk)
    IN IF obj # <<>>
       THEN Returned(obj[1], <<"compute.instance_types.find">>)
       ELSE Raise("Http404", <<"compute.instance_types.find">>)

InstanceViewSet_list_objects(p, kw) ==
    Listed(ProviderList(p, "compute.instances"), <<"compute.instances.list">>)

InstanceViewSet_get_object(p, kw) ==
    Returned(ProviderGet(p, "compute.instances", kw.pk),
             <<"compute.instances.get">>)

VolumeViewSet_list_objects(p, kw) ==
    Listed(ProviderList(p, "block_store.volumes"), <<"block_store.volumes.list">>)

VolumeViewSet_get_object(p, kw) ==
    Returned(ProviderGet(p, "block_store.volumes", kw.pk),
             <<"block_store.volumes.get">>)

SnapshotViewSet_list_objects(p, kw) ==
    Listed(ProviderList(p, "block_store.snapshots"),
           <<"block_store.snapshots.list">>)

SnapshotViewSet_get_object(p, kw) ==
    Returned(ProviderGet(p, "block_store.snapshots", kw.pk),
             <<"block_store.snapshots.get">>)

BucketViewSet_list_objects(p, kw) ==
    Listed(ProviderList(p, "object_store"), <<"object_store.list">>)

BucketViewSet_get_object(p, kw) ==
    Returned(ProviderGet(p, "object_store", kw.pk), <<"object_store.get">>)

BucketObjectViewSet_list_objects(p, kw) ==
    LET bucket == ProviderGet(p, "object_store", kw.parent_pk)
    IN IF Truthy(bucket)
       THEN Listed(ProviderChildren(p, "bucket.objects", bucket.id),
                   <<"object_store.get", "bucket.list">>)
       ELSE Raise("Http404", <<"object_store.get">>)

BucketObjectViewSet_get_object(p, kw) ==
    Returned(ProviderGet(p, "object_store", kw.pk), <<"object_store.get">>)

(***************************************************************************)
(* Method resolution: every resource handler defines get_object and        *)
(* list_objects itself, so these are what a request reaches.               *)
(***************************************************************************)
NestedViews == {"ZoneViewSet", "SecurityGroupRuleViewSet", "SubnetViewSet",
                "BucketObjectViewSet"}

FlatViews == {"RegionViewSet", "MachineImageViewSet", "KeyPairViewSet",
              "SecurityGroupViewSet", "NetworkViewSet", "InstanceTypeViewSet",
              "InstanceViewSet", "VolumeViewSet", "SnapshotViewSet",
              "BucketViewSet"}

ResourceViews == FlatViews \cup NestedViews

get_object(p, view, kw) ==
    CASE view = "RegionViewSet" -> RegionViewSet_get_object(p, kw)
      [] view = "MachineImageViewSet" -> MachineImageViewSet_get_object(p, kw)
      [] view = "ZoneViewSet" -> ZoneViewSet_get_object(p, kw)
      [] view = "KeyPairViewSet" -> KeyPairViewSet_get_object(p, kw)
      [] view = "SecurityGroupViewSet" -> SecurityGroupViewSet_get_object(p, kw)
      [] view = "SecurityGroupRuleViewSet" ->
             SecurityGroupRuleViewSet_get_object(p, kw)
      [] view = "NetworkViewSet" -> NetworkViewSet_get_object(p, kw)
      [] view = "SubnetViewSet" -> SubnetViewSet_get_object(p, kw)
      [] view = "InstanceTypeViewSet" -> InstanceTypeViewSet_get_object(p, kw)
      [] view = "InstanceViewSet" -> InstanceViewSet_get_object(p, kw)
      [] view = "VolumeViewSet" -> VolumeViewSet_get_object(p, kw)
      [] view = "SnapshotViewSet" -> SnapshotViewSet_get_object(p, kw)
      [] view = "BucketViewSet" -> BucketViewSet_get_object(p, kw)
      [] view = "BucketObjectViewSet" -> BucketObjectViewSet_get_object(p, kw)
      [] view \in SingleViews -> CustomReadOnlySingleViewSet_get_object

list_objects(p, view, kw) ==
    CASE view = "RegionViewSet" -> RegionViewSet_list_objects(p, kw)
      [] view = "MachineImageViewSet" -> MachineImageViewSet_list_objects(p, kw)
      [] view = "ZoneViewSet" -> ZoneViewSet_list_objects(p, kw)
      [] view = "KeyPairViewSet" -> KeyPairViewSet_list_objects(p, kw)
      [] view = "SecurityGroupViewSet" -> SecurityGroupViewSet_list_objects(p, kw)
      [] view = "SecurityGroupRuleViewSet" ->
             SecurityGroupRuleViewSet_list_objects(p, kw)
      [] view = "NetworkViewSet" -> NetworkViewSet_list_objects(p, kw)
      [] view = "SubnetViewSet" -> SubnetViewSet_list_objects(p, kw)
      [] view = "InstanceTypeViewSet" -> InstanceTypeViewSet_list_objects(p, kw)
      [] view = "InstanceViewSet" -> InstanceViewSet_list_objects(p, kw)
      [] view = "VolumeViewSet" -> VolumeViewSet_list_objects(p, kw)
      [] view = "SnapshotViewSet" -> SnapshotViewSet_list_objects(p, kw)
      [] view = "BucketViewSet" -> BucketViewSet_list_objects(p, kw)
      [] view = "BucketObjectViewSet" -> BucketObjectViewSet_list_objects(p, kw)

\* get_queryset(): return self.list_objects()
get_queryset(p, view, kw) == list_objects(p, view, kw)

\* The service whose objects are the parents of a nested handler's objects.
ParentServiceOfView(view) ==
    CASE view = "ZoneViewSet" -> "compute.regions"
      [] view = "SecurityGroupRuleViewSet" -> "security.security_groups"
      [] view = "SubnetViewSet" -> "network"
      [] view = "BucketObjectViewSet" -> "object_store"

\* The path parameters a request to a handler can carry.
Kwargs(view) ==
    IF view \in NestedViews
    THEN [pk : Ids, parent_pk : Ids]
    ELSE [pk : Ids, parent_pk : {0}]

(***************************************************************************)
(* State of the request side: the provider, and the last operation served. *)
(***************************************************************************)
NoRequest ==
    [op |-> "none", view |-> "", kw |-> [pk |-> 0, parent_pk |-> 0],
     out |-> Returned(None, <<>>)]

\* A provider in which one top-level service, and the collection nested
\* under it, hold objects.  Every handler reads a single service and the
\* collection under it, so the other services are left empty.
InitViews ==
    /\ \E s \in TopServices : \E T \in SUBSET Ids : \E ch \in [Ids -> {0} \cup T] :
         provider =
           [top |-> [x \in TopServices |-> IF x = s THEN T ELSE {}],
            child |-> [n \in NestedServices |->
                         IF ParentService(n) = s THEN ch ELSE [c \in Ids |-> 0]]]
    /\ last = NoRequest
    /\ registry = <<>>
    /\ urls = <<>>
    /\ pc = "serving"

\* A detail request: the framework's retrieve / update / destroy call
\* self.get_object().
GetObject(view, kw) ==
    /\ last' = [op |-> "get_object", view |-> view, kw |-> kw,
                out |-> get_object(provider, view, kw)]
    /\ UNCHANGED <<provider, registry, urls, pc>>

\* A list request: the framework's list calls self.get_queryset().
GetQueryset(view, kw) ==
    /\ last' = [op |-> "list_objects", view |-> view,
                kw |-> [kw EXCEPT !.pk = 0],
                out |-> get_queryset(provider, view, kw)]
    /\ UNCHANGED <<provider, registry, urls, pc>>

\* A request to a singleton handler: CustomReadOnlySingleViewSet.list.
SingleList(view) ==
    /\ last' = [op |-> "list", view |-> view, kw |-> [pk |-> 0, parent_pk |-> 0],
                out |-> CustomReadOnlySingleViewSet_list(view)]
    /\ UNCHANGED <<provider, registry, urls, pc>>

NextViews ==
    \/ \E view \in ResourceViews : \E kw \in Kwargs(view) : GetObject(view, kw)
    \/ \E view \in ResourceViews : \E kw \in Kwargs(view) : GetQueryset(view, kw)
    \/ \E view \in SingleViews : SingleList(view)

SpecViews == InitViews /\ [][NextViews]_vars

(***************************************************************************)
(* The hybrid router.  A registry entry is <<prefix, viewset, basename>>.   *)
(***************************************************************************)
\* The handler classes a registry is built from.
PlainViewClasses == {"InfrastructureView", "AuthView"}

ViewSetClasses == {"CloudViewSet", "RegionViewSet", "ComputeViewSet"}

ViewClasses == ViewSetClasses \cup PlainViewClasses

Prefixes == {"infrastructure", "clouds"}

Basenames == {"infrastructure", "cloud"}

\* issubclass(viewset, viewsets.ViewSetMixin)
IsViewSetMixin(viewset) == viewset \in ViewSetClasses

\* The handler methods a class has: the actions of a viewset (ModelViewSet,
\* ReadOnlyModelViewSet, ListModelMixin + GenericViewSet), the HTTP method
\* handlers of an APIView.
HandlerMethods(viewset) ==
    CASE viewset = "CloudViewSet" ->
             {"list", "create", "retrieve", "update", "partial_update", "destroy"}
      [] viewset = "RegionViewSet" -> {"list", "retrieve"}
      [] viewset = "ComputeViewSet" -> {"list"}
      [] viewset = "InfrastructureView" -> {"get"}
      [] viewset = "AuthView" -> {"get"}

\* self.trailing_slash of a router built with the default trailing_slash=True.
trailing_slash == "/"

\* The route templates of the underlying SimpleRouter: the list route and the
\* detail route, each with its mapping of HTTP method to action.
StandardRoutes ==
    <<[url |-> <<"^", "{prefix}", "{trailing_slash}", "$">>,
       mapping |-> {<<"get", "list">>, <<"post", "create">>},
       name |-> "-list"],
      [url |-> <<"^", "{prefix}", "/", "{lookup}", "{trailing_slash}", "$">>,
       mapping |-> {<<"get", "retrieve">>, <<"put", "update">>,
                    <<"patch", "partial_update">>, <<"delete", "destroy">>},
       name |-> "-detail"]>>

\* get_routes of the underlying router: none of the handlers has extra
\* actions, so the templates are returned as they are.
StandardGetRoutes(viewset) == StandardRoutes

\* HybridRoutingMixin.get_routes
HybridGetRoutesInverted(viewset) ==
    IF ~IsViewSetMixin(viewset) THEN StandardGetRoutes(viewset) ELSE <<>>

HybridGetRoutes(viewset) ==
    IF IsViewSetMixin(viewset) THEN StandardGetRoutes(viewset) ELSE <<>>

\* route.url.format(prefix=..., lookup=..., trailing_slash=...)
FormatUrl(template, prefix) ==
    [n \in 1..Len(template) |->
        CASE template[n] = "{prefix}" -> prefix
          [] template[n] = "{trailing_slash}" -> trailing_slash
          [] template[n] = "{lookup}" -> "(?P<pk>[^/.]+)"
          [] OTHER -> template[n]]

\* get_method_map: the part of a route's mapping whose action the viewset has.
GetMethodMap(viewset, mapping) ==
    {m \in mapping : m[2] \in HandlerMethods(viewset)}

\* The urls the underlying router makes of one registry entry.
RECURSIVE EntryUrls(_, _)
EntryUrls(entry, routes) ==
    IF routes = <<>> THEN <<>>
    ELSE LET route == Head(routes)
             mapping == GetMethodMap(entry[2], route.mapping)
         IN (IF mapping = {} THEN <<>>
             ELSE <<[regex |-> FormatUrl(route.url, entry[1]),
                     view |-> entry[2],
                     mapping |-> mapping,
                     name |-> <<entry[3], route.name>>]>>)
            \o EntryUrls(entry, Tail(routes))

\* get_urls of the underlying SimpleRouter; hybrid says whether
\* self.get_routes is the mixin's (TRUE) or the underlying router's own.
RECURSIVE SimpleRouterGetUrls(_, _)
SimpleRouterGetUrls(reg, hybrid) ==
    IF reg = <<>> THEN <<>>
    ELSE EntryUrls(Head(reg),
                   IF hybrid THEN HybridGetRoutes(Head(reg)[2])
                             ELSE StandardGetRoutes(Head(reg)[2]))
         \o SimpleRouterGetUrls(Tail(reg), hybrid)

\* url(regex, viewset.as_view(), name='{0}-list'.format(basename)): the view
\* answers the HTTP methods the class has handlers for.
SimpleViewUrlUnsuffixed(entry) ==
    [regex |-> <<entry[1], trailing_slash, "$">>,
     view |-> entry[2],
     mapping |-> {<<m, m>> : m \in HandlerMethods(entry[2])},
     name |-> <<entry[3], "">>]

SimpleViewUrl(entry) ==
    [regex |-> <<entry[1], trailing_slash, "$">>,
     view |-> entry[2],
     mapping |-> {<<m, m>> : m \in HandlerMethods(entry[2])},
     name |-> <<entry[3], "-list">>]

\* The loop of HybridRoutingMixin.get_urls over self.registry.
RECURSIVE SimpleViewUrls(_)
SimpleViewUrls(reg) ==
    IF reg = <<>> THEN <<>>
    ELSE (IF IsViewSetMixin(Head(reg)[2]) THEN <<>>
          ELSE <<SimpleViewUrl(Head(reg))>>)
         \o SimpleViewUrls(Tail(reg))

\* HybridRoutingMixin.get_urls
HybridGetUrlsPrepending(reg) ==
    SimpleViewUrls(reg) \o SimpleRouterGetUrls(reg, TRUE)

HybridGetUrls(reg) ==
    SimpleRouterGetUrls(reg, TRUE) \o SimpleViewUrls(reg)

(***************************************************************************)
(* State of the router side: the registry, and the urls once generated.    *)
(***************************************************************************)
InitRouter ==
    /\ provider = [top |-> [x \in TopServices |-> {}],
                   child |-> [n \in NestedServices |-> [c \in Ids |-> 0]]]
    /\ last = NoRequest
    /\ registry = <<>>
    /\ urls = <<>>
    /\ pc = "registering"

\* router.register(prefix, viewset, base_name): appends to the registry.
Register(prefix, viewset, basename) ==
    /\ pc = "registering"
    /\ Len(registry) < MaxRegistry
    /\ registry' = Append(registry, <<prefix, viewset, basename>>)
    /\ UNCHANGED <<provider, last, urls, pc>>

\* router.urls at start-up: get_urls(), after which requests are served.
GetUrls ==
    /\ pc = "registering"
    /\ urls' = HybridGetUrls(registry)
    /\ pc' = "serving"
    /\ UNCHANGED <<provider, last, registry>>

NextRouter ==
    \/ \E prefix \in Prefixes : \E viewset \in ViewClasses :
         \E basename \in Basenames : Register(prefix, viewset, basename)
    \/ GetUrls

SpecRouter == InitRouter /\ [][NextRouter]_vars

(***************************************************************************)
(* Properties of the handlers, checked under SpecViews.                    *)
(***************************************************************************)
ServedGet == last.op = "get_object" /\ last.view \in ResourceViews

\* C1: get_object of a resource handler never hands None back to its caller:
\* an identifier the provider does not know ends in Http404.
AbsentIsNotFound ==
    ServedGet => ~(last.out.status = "returned" /\ last.out.value = None)

\* C2: list_objects and get_object of a nested handler end in Http404 when
\* the parent identifier matches no existing parent.
MissingParentIsNotFound ==
    (/\ last.op \in {"get_object", "list_objects"}
     /\ last.view \in NestedViews
     /\ last.kw.parent_pk \notin provider.top[ParentServiceOfView(last.view)])
    => last.out.status = "Http404"

\* C6: an object returned by get_object has had check_object_permissions run
\* on it, and the check has not run when the lookup ended in Http404.
CheckedBeforeReturn ==
    ServedGet =>
        /\ last.out.status = "returned" =>
               last.out.checked /\ last.out.value # None
        /\ last.out.status = "Http404" => ~last.out.checked

\* C7: for Zone and SecurityGroupRule, get_object of an identifier that occurs
\* in list_objects() returns the first list element with that identifier, and
\* makes no provider call that list_objects() does not make.
ListRetrieveConsistent ==
    (ServedGet /\ last.view \in {"ZoneViewSet", "SecurityGroupRuleViewSet"}) =>
        LET l == list_objects(provider, last.view, last.kw)
        IN (/\ l.status = "listed"
            /\ \E n \in 1..Len(l.items) : l.items[n].id = last.kw.pk)
           => /\ last.out.status = "returned"
              /\ last.out.value = FirstWithId(l.items, last.kw.pk)
              /\ last.out.calls = l.calls

\* C10: for SecurityGroupRule, BucketObject and Subnet, an object returned by
\* get_object under a parent is an element of list_objects() under that parent.
ScopedToParent ==
    (/\ ServedGet
     /\ last.view \in {"SecurityGroupRuleViewSet", "BucketObjectViewSet",
                       "SubnetViewSet"}
     /\ last.out.status = "returned"
     /\ last.out.value # None)
    => LET l == list_objects(provider, last.view, last.kw)
       IN /\ l.status = "listed"
          /\ \E n \in 1..Len(l.items) : l.items[n] = last.out.value

\* C8: the list operation of a singleton handler answers with the
\* serialization of the empty row, whatever the provider holds, without a
\* provider call and never with Http404.
SingletonListSynthetic ==
    (last.op = "list" /\ last.view \in SingleViews) =>
        /\ last.out.status = "Response"
        /\ last.out.value = EmptyRow
        /\ last.out.serializer # ""
        /\ last.out.calls = <<>>

SingletonListServed ==
    /\ last.op = "list"
    /\ last.view = "ComputeViewSet"
    /\ last.out.status = "Response"
    /\ provider.top["compute.instances"] # {}

(***************************************************************************)
(* Properties of the router, checked under SpecRouter.                     *)
(***************************************************************************)
PlainEntries == {i \in 1..Len(registry) : ~IsViewSetMixin(registry[i][2])}

PlainUrls == {n \in 1..Len(urls) : ~IsViewSetMixin(urls[n].view)}

\* The urls that are the one route of a plain registry entry e.
RoutesOfPlainEntry(e) ==
    {n \in PlainUrls :
        /\ urls[n].regex = <<e[1], "/", "$">>
        /\ urls[n].view = e[2]
        /\ urls[n].name = <<e[3], "-list">>
        /\ {m[1] : m \in urls[n].mapping} = {"get"}}

\* C3: every plain registry entry gets exactly one route, of pattern
\* prefix + trailing slash + $, mapped to the handler, named basename-list and
\* answering GET only; no other route leads to a plain handler.
PlainEntryOneRoute ==
    pc = "serving" =>
        /\ \A i \in PlainEntries :
               Cardinality(RoutesOfPlainEntry(registry[i]))
                   = Cardinality({j \in PlainEntries : registry[j] = registry[i]})
        /\ Cardinality(PlainUrls) = Cardinality(PlainEntries)

PlainEntryRouted ==
    /\ pc = "serving"
    /\ \E i, j \in 1..Len(registry) :
          /\ registry[i][2] = "InfrastructureView"
          /\ registry[i][3] = "infrastructure"
          /\ IsViewSetMixin(registry[j][2])
    /\ \E n \in 1..Len(urls) : urls[n].name = <<"infrastructure", "-list">>
                                /\ urls[n].view = "InfrastructureView"

IsViewSetEntry(e) == IsViewSetMixin(e[2])

IsViewSetUrl(u) == IsViewSetMixin(u.view)

\* C4: the routes of the viewset entries are the routes the underlying
\* router alone generates for those entries.
ViewSetRoutesAsUnderlying ==
    pc = "serving" =>
        SelectSeq(urls, IsViewSetUrl)
            = SimpleRouterGetUrls(SelectSeq(registry, IsViewSetEntry), FALSE)

MixedRegistryRouted ==
    /\ pc = "serving"
    /\ Len(registry) >= 2
    /\ PlainEntries # {}
    /\ \E n \in 1..Len(urls) : urls[n].name[2] = "-detail"

\* C5: no two generated routes have the same name.
UniqueRouteNames ==
    pc = "serving" =>
        \A i, j \in 1..Len(urls) : i # j => urls[i].name # urls[j].name

\* C9: the url list is the routes of the underlying router, in its order,
\* followed by the routes of the plain entries, in registry order.
StandardThenPlainInOrder ==
    pc = "serving" =>
        LET std == SimpleRouterGetUrls(registry, TRUE)
            k == Len(std)
            E == SortedSeq(PlainEntries)
        IN /\ Len(urls) = k + Len(E)
           /\ SubSeq(urls, 1, k) = std
           /\ \A n \in 1..k : IsViewSetMixin(urls[n].view)
           /\ \A j \in 1..Len(E) :
                 /\ urls[k + j].view = registry[E[j]][2]
                 /\ urls[k + j].regex[1] = registry[E[j]][1]
                 /\ urls[k + j].name[1] = registry[E[j]][3]

PlainAroundViewSetRouted ==
    /\ pc = "serving"
    /\ Len(registry) >= 3
    /\ registry[1][2] = "InfrastructureView"
    /\ IsViewSetMixin(registry[2][2])
    /\ registry[3][2] = "AuthView"
    /\ registry[3][1] # registry[1][1]
    /\ Len(urls) >= 3

====
